---------------------------- MODULE Spec2Model ----------------------------
(***************************************************************************)
(* The scan-and-persist pipeline of the storage scanner:                   *)
(*                                                                         *)
(*   walker workers (scanner.rs, par_bridge closure)                       *)
(*     -> record channel  batch_tx / batch_rx   (bounded, 2 * batch_size)  *)
(*     -> batch thread    (scanner.rs, batch_thread)                       *)
(*     -> batch channel   tx / rx               (bounded, 2 * batch_size)  *)
(*     -> RotatingParquetWriter::consume_batches (rotating_writer.rs)      *)
(*     -> chunk files and the manifest file on disk                        *)
(*                                                                         *)
(* together with a process crash and a restart in resume mode (main.rs,    *)
(* run_scan).  An entry is identified by its index in Tree; everything the *)
(* code derives from an entry (top_level_dir, depth, file_type) is         *)
(* computed from the entry's path and metadata as FileEntry::from_path     *)
(* does.  Timestamps, file sizes of chunks and path strings of chunks are  *)
(* not modelled: a chunk file is identified by its chunk number.           *)
(***************************************************************************)
EXTENDS Integers, Sequences, FiniteSets, TLC

(***************************************************************************)
(* Bounds of the model.                                                    *)
(***************************************************************************)
MaxBatchSize == 2
MaxRowsPerChunk == 2
MaxDepth == 1

(***************************************************************************)
(* num_threads, as the repository's integration tests set it.              *)
(***************************************************************************)
NumWorkers == 2

(***************************************************************************)
(* The scanned tree, in the order the jwalk iterator yields it (depth      *)
(* first): the scan root, directory A with one file, directory B with one  *)
(* entry whose metadata cannot be read.  path is the path relative to the  *)
(* scan root, len is metadata.len(), ext is what path.extension() returns  *)
(* (the file in A is named "f.directory").                                 *)
(***************************************************************************)
RootName == "root"

\* Variant: an iterator that leaves directory A and comes back to it.
Tree_unordered ==
  << [path |-> << >>, is_dir |-> TRUE, len |-> 0, err |-> FALSE,
       ext |-> << >>],
     [path |-> <<"A">>, is_dir |-> TRUE, len |-> 0, err |-> FALSE,
       ext |-> << >>],
     [path |-> <<"B">>, is_dir |-> TRUE, len |-> 0, err |-> FALSE,
       ext |-> << >>],
     [path |-> <<"A", "f.directory">>, is_dir |-> FALSE, len |-> 1, err |-> FALSE,
       ext |-> <<"directory">>],
     [path |-> <<"B", "x">>, is_dir |-> FALSE, len |-> 4, err |-> TRUE,
       ext |-> << >>] >>

Tree ==
  << [path |-> << >>, is_dir |-> TRUE, len |-> 0, err |-> FALSE,
       ext |-> << >>],
     [path |-> <<"A">>, is_dir |-> TRUE, len |-> 0, err |-> FALSE,
       ext |-> << >>],
     [path |-> <<"A", "f.directory">>, is_dir |-> FALSE, len |-> 1, err |-> FALSE,
       ext |-> <<"directory">>],
     [path |-> <<"B">>, is_dir |-> TRUE, len |-> 0, err |-> FALSE,
       ext |-> << >>],
     [path |-> <<"B", "x">>, is_dir |-> FALSE, len |-> 4, err |-> TRUE,
       ext |-> << >>] >>

Ids == 1..Len(Tree)
Workers == 1..NumWorkers

(***************************************************************************)
(* Option values: None is the empty sequence, Some(x) is <<x>>.            *)
(***************************************************************************)
None == << >>
Some(x) == <<x>>
IsSome(o) == o # << >>
Unwrap(o) == o[1]

(***************************************************************************)
(* FileEntry::from_path, the fields the pipeline reads.                    *)
(***************************************************************************)
top_level_dir(i) ==
  IF Tree[i].path = << >> THEN RootName ELSE Head(Tree[i].path)

depth(i) == Len(Tree[i].path)

file_type(i) ==
  IF Tree[i].is_dir THEN "directory"
  ELSE IF IsSome(Tree[i].ext) THEN Unwrap(Tree[i].ext) ELSE "no_extension"

RECURSIVE Flatten(_)
Flatten(s) == IF s = << >> THEN << >> ELSE Head(s) \o Flatten(Tail(s))

Range(s) == { s[k] : k \in 1..Len(s) }


(***************************************************************************)
(* State.                                                                  *)
(***************************************************************************)
VARIABLES
  options,            \* ScanOptions / RotatingWriterConfig of the scan
  phase,              \* "running", "crashed", "finished", "failed",
                      \* "resume_failed"
  resumed,            \* FALSE in the first scan, TRUE in the run that resumes it
  \* ---- walker (Scanner::scan_parallel)
  walkPos,            \* index of the next entry the jwalk iterator yields
  worker,             \* worker -> index of the entry it holds, 0 when idle
  skip_dirs,          \* Option<HashSet<String>> given to scan_with_filter
  files_counter, dirs_counter, size_counter, errors_counter, skipped_counter,
  scanPc,             \* "walk", "join" (batch_tx dropped), "returned"
  batch_rx,           \* contents of the record channel
  \* ---- batch thread
  batcherPc,          \* "recv", "send", "flush", "done"
  batch,              \* the buffer being filled
  send_batch,         \* the full buffer being sent
  taken,              \* the records the batch thread has received, in order
  rx,                 \* contents of the batch channel
  \* ---- RotatingParquetWriter
  wpc,                \* position of the writer thread
  entries,            \* the batch write_batch is working on
  saveFor,            \* which save_to_file call is running
  current_writer,     \* Option<ParquetFileWriter>: Some([rows_written])
  current_chunk, current_chunk_rows,
  interval_elapsed,   \* last_rotation.elapsed() >= time_interval, as of the last
                      \* should_rotate call on the current chunk
  manifest,
  last_top_level_dir,
  \* ---- disk
  chunkFiles,         \* chunk number -> [state, rows]
  manifestFile,       \* [state, m]
  \* ---- history
  loaded,             \* the manifest the run started from
  processed,          \* entries the workers have handled in this run
  received,           \* entries handed to write_batch in this run, in order
  batches,            \* the batches handed to write_batch in this run, in order
  produced,           \* Some(worker -> the entries it has sent in this run, in
                      \* order), or None when this history is not kept
  persisted,          \* the chunk list of the last manifest written completely
  resumedFrom         \* the phase the resumed run was started in, "none" before

walkerVars == << walkPos, worker, skip_dirs, files_counter, dirs_counter,
                 size_counter, errors_counter, skipped_counter, scanPc,
                 batch_rx, processed, produced >>
batcherVars == << batcherPc, batch, send_batch, taken >>
writerVars == << wpc, entries, saveFor, current_writer, current_chunk,
                 current_chunk_rows, interval_elapsed, manifest, last_top_level_dir, received,
                 batches >>
diskVars == << chunkFiles, manifestFile, persisted >>
vars == << options, phase, resumed, resumedFrom, walkerVars, batcherVars, rx,
           writerVars, diskVars, loaded >>

(***************************************************************************)
(* ScanManifest.                                                           *)
(***************************************************************************)
ScanManifest_new ==
  [ total_rows |-> 0, chunk_count |-> 0, chunks |-> << >>,
    scan_end |-> None, completed |-> FALSE,
    completed_top_level_dirs |-> {}, current_top_level_dir |-> None ]

start_directory(m, dir) ==
  [m EXCEPT !.current_top_level_dir = Some(dir)]

complete_current_directory(m) ==
  IF IsSome(m.current_top_level_dir)
  THEN [m EXCEPT !.completed_top_level_dirs = @ \cup {Unwrap(m.current_top_level_dir)},
                 !.current_top_level_dir = None]
  ELSE m

\* Variant: add_chunk forgets chunk_count.
add_chunk_no_count(m, metadata) ==
  [m EXCEPT !.total_rows = @ + metadata.row_count,
            !.chunks = Append(@, metadata)]

add_chunk(m, metadata) ==
  [m EXCEPT !.total_rows = @ + metadata.row_count,
            !.chunk_count = @ + 1,
            !.chunks = Append(@, metadata)]

\* Variant: complete does not record the end of the scan.
complete_no_end(m) ==
  [m EXCEPT !.completed = TRUE]

complete(m) ==
  [m EXCEPT !.scan_end = Some("now"), !.completed = TRUE]

(***************************************************************************)
(* The manifest file.  save_to_file is File::create (which truncates the   *)
(* file in place) followed by write_all; load_from_file parses only a      *)
(* file that was written completely.                                       *)
(***************************************************************************)
NoFile == [state |-> "absent", m |-> ScanManifest_new]
file_create == [state |-> "truncated", m |-> ScanManifest_new]
write_all(m) == [state |-> "intact", m |-> m]

(***************************************************************************)
(* Chunk files.  ParquetFileWriter::new creates (truncates) the file of    *)
(* the chunk, write_batch appends rows, close writes the footer: before    *)
(* close the file is not a readable Parquet file.                          *)
(***************************************************************************)
\* Variant: the chunk file is opened without truncating it.
ParquetFileWriter_new_keep(files, n) ==
  IF n \in DOMAIN files
  THEN [files EXCEPT ![n].state = "open"]
  ELSE (n :> [state |-> "open", rows |-> << >>]) @@ files

ParquetFileWriter_new(files, n) ==
  (n :> [state |-> "open", rows |-> << >>]) @@ files

\* Variant: only the first entry of the batch reaches the chunk.
ParquetFileWriter_write_first(files, n, es) ==
  [files EXCEPT ![n].rows = Append(@, Head(es))]

ParquetFileWriter_write(files, n, es) ==
  [files EXCEPT ![n].rows = @ \o es]

\* Variant: close leaves the file open.
ParquetFileWriter_close_noop(files, n) == files

ParquetFileWriter_close(files, n) ==
  [files EXCEPT ![n].state = "closed"]

(***************************************************************************)
(* RotatingParquetWriter::new and ::resume: the in-memory writer.          *)
(***************************************************************************)
\* Variant: a resumed writer starts counting chunks from zero again.
first_chunk_zero(m) == 0

first_chunk(m) == m.chunk_count

\* Variant: resume forgets the completed directories.
resume_manifest_no_dirs(file) ==
  IF file.state = "absent"
  THEN ScanManifest_new
  ELSE [file.m EXCEPT !.completed = FALSE, !.scan_end = None,
                      !.completed_top_level_dirs = {}]

resume_manifest(file) ==
  IF file.state = "absent"
  THEN ScanManifest_new
  ELSE [file.m EXCEPT !.completed = FALSE, !.scan_end = None]

\* Variant: only the time interval triggers a rotation.
should_rotate_timed_only(rows, elapsed) == elapsed

\* Variant: the row limit is compared strictly.
should_rotate_strict(rows, elapsed) ==
  \/ rows > options.rows_per_chunk
  \/ elapsed

should_rotate(rows, elapsed) ==
  \/ rows >= options.rows_per_chunk
  \/ elapsed

(***************************************************************************)
(* The state a process starts in: Scanner::scan_with_filter's counters,    *)
(* the two channels of scan_parallel and run_scan, the writer built by     *)
(* RotatingParquetWriter::new or ::resume from manifest m.                 *)
(***************************************************************************)
StartProcess(m, skip) ==
  /\ walkPos' = 1
  /\ worker' = [w \in Workers |-> 0]
  /\ skip_dirs' = skip
  /\ files_counter' = 0
  /\ dirs_counter' = 0
  /\ size_counter' = 0
  /\ errors_counter' = 0
  /\ skipped_counter' = 0
  /\ scanPc' = "walk"
  /\ batch_rx' = << >>
  /\ processed' = {}
  /\ batcherPc' = "recv"
  /\ batch' = << >>
  /\ send_batch' = << >>
  /\ taken' = << >>
  /\ rx' = << >>
  /\ wpc' = "recv"
  /\ entries' = << >>
  /\ saveFor' = "none"
  /\ current_writer' = None
  /\ current_chunk' = first_chunk(m)
  /\ current_chunk_rows' = 0
  /\ interval_elapsed' = FALSE
  /\ manifest' = m
  /\ last_top_level_dir' = None
  /\ received' = << >>
  /\ batches' = << >>
  /\ produced' = IF IsSome(produced) THEN Some([w \in Workers |-> << >>])
                  ELSE None
  /\ loaded' = m

InitState(batch_sizes, rows_per_chunks, threads, depths, log) ==
  /\ options \in [ batch_size : batch_sizes,
                   rows_per_chunk : rows_per_chunks,
                   timed : BOOLEAN,
                   num_threads : threads,
                   max_depth : depths ]
  /\ options.timed => options.rows_per_chunk > 1
  /\ phase = "running"
  /\ resumed = FALSE
  /\ walkPos = 1
  /\ worker = [w \in Workers |-> 0]
  /\ skip_dirs = None
  /\ files_counter = 0
  /\ dirs_counter = 0
  /\ size_counter = 0
  /\ errors_counter = 0
  /\ skipped_counter = 0
  /\ scanPc = "walk"
  /\ batch_rx = << >>
  /\ processed = {}
  /\ batcherPc = "recv"
  /\ batch = << >>
  /\ send_batch = << >>
  /\ taken = << >>
  /\ rx = << >>
  /\ wpc = "recv"
  /\ entries = << >>
  /\ saveFor = "none"
  /\ current_writer = None
  /\ current_chunk = first_chunk(ScanManifest_new)
  /\ current_chunk_rows = 0
  /\ interval_elapsed = FALSE
  /\ manifest = ScanManifest_new
  /\ last_top_level_dir = None
  /\ received = << >>
  /\ batches = << >>
  /\ produced = log
  /\ loaded = ScanManifest_new
  /\ chunkFiles = << >>
  /\ manifestFile = NoFile
  /\ persisted = << >>
  /\ resumedFrom = "none"

Init ==
  InitState(1..MaxBatchSize, 1..MaxRowsPerChunk, {NumWorkers}, {None}, None)

\* Scans with batch_size = 1 and rows_per_chunk = 1, with every num_threads
\* up to NumWorkers and every max_depth up to MaxDepth, keeping for every
\* worker the history of the entries it sent.
InitWalker ==
  InitState({1}, {1}, Workers,
            {None} \cup { Some(d) : d \in 0..MaxDepth },
            Some([w \in Workers |-> << >>]))

(***************************************************************************)
(* Walker: the par_bridge closure of scan_parallel.                        *)
(***************************************************************************)
\* Variant: the channels hold one item more.
channel_capacity_wide == options.batch_size * 2 + 1

\* bounded(batch_size * 2), for the record channel and the batch channel.
channel_capacity == options.batch_size * 2

\* Variant: max_depth is exclusive.
within_depth_exclusive(i, max_depth) ==
  IsSome(max_depth) => depth(i) < Unwrap(max_depth)

\* walker.max_depth(depth): the iterator yields the entries whose depth is
\* at most max_depth.
within_depth(i, max_depth) ==
  IsSome(max_depth) => depth(i) <= Unwrap(max_depth)

\* The entries the iterator has still to yield when it stands at pos.
to_walk(pos) ==
  { i \in Ids : i >= pos /\ within_depth(i, options.max_depth) }

Min(S) == CHOOSE i \in S : \A j \in S : i <= j

\* Variant: the iterator loses every second entry.
walk_next_skip(i) == i + 2

\* The position of the iterator after it has yielded entry i.
walk_next(i) == i + 1

\* A rayon worker pulls the next item of the jwalk iterator.
WorkerTake(w) ==
  /\ phase = "running"
  /\ scanPc = "walk"
  /\ w <= options.num_threads
  /\ worker[w] = 0
  /\ to_walk(walkPos) # {}
  /\ worker' = [worker EXCEPT ![w] = Min(to_walk(walkPos))]
  /\ walkPos' = walk_next(Min(to_walk(walkPos)))
  /\ UNCHANGED << options, phase, resumed, skip_dirs, files_counter, dirs_counter,
                  size_counter, errors_counter, skipped_counter, scanPc,
                  batch_rx, processed, batcherVars, rx, writerVars, diskVars,
                  loaded, produced,
                  batches, persisted, resumedFrom >>

\* Variant: the resume filter is not applied.
is_skipped_never(i, skip) == FALSE

is_skipped(i, skip) ==
  IsSome(skip) /\ top_level_dir(i) \in Unwrap(skip)

\* Variant: an error is not counted.
fetch_add_lost(counter, n) == counter

\* errors_counter.fetch_add(1, Ordering::Relaxed)
fetch_add(counter, n) == counter + n

\* The closure's error arms: the entry cannot be read.
WorkerError(w) ==
  /\ phase = "running"
  /\ worker[w] # 0
  /\ Tree[worker[w]].err
  /\ errors_counter' = fetch_add(errors_counter, 1)
  /\ processed' = processed \cup {worker[w]}
  /\ worker' = [worker EXCEPT ![w] = 0]
  /\ UNCHANGED << options, phase, resumed, walkPos, skip_dirs, files_counter,
                  dirs_counter, size_counter, skipped_counter, scanPc,
                  batch_rx, batcherVars, rx, writerVars, diskVars, loaded, produced,
                  batches, persisted, resumedFrom >>

\* The entry belongs to a completed top-level directory: count and drop it.
WorkerSkip(w) ==
  /\ phase = "running"
  /\ worker[w] # 0
  /\ ~Tree[worker[w]].err
  /\ is_skipped(worker[w], skip_dirs)
  /\ skipped_counter' = skipped_counter + 1
  /\ processed' = processed \cup {worker[w]}
  /\ worker' = [worker EXCEPT ![w] = 0]
  /\ UNCHANGED << options, phase, resumed, walkPos, skip_dirs, files_counter,
                  dirs_counter, size_counter, errors_counter, scanPc,
                  batch_rx, batcherVars, rx, writerVars, diskVars, loaded, produced,
                  batches, persisted, resumedFrom >>

\* The batch thread has left its  for entry in batch_rx  loop, which drops
\* the receiver of the record channel.
batch_rx_dropped == batcherPc \in {"flush", "done"}

\* Update the counters and send the entry; the send blocks while the record
\* channel is full and fails (ignored) once the receiver is dropped.
WorkerEmit(w) ==
  /\ phase = "running"
  /\ worker[w] # 0
  /\ ~Tree[worker[w]].err
  /\ ~is_skipped(worker[w], skip_dirs)
  /\ \/ batch_rx_dropped
     \/ Len(batch_rx) < channel_capacity
  /\ IF Tree[worker[w]].is_dir
     THEN /\ dirs_counter' = dirs_counter + 1
          /\ UNCHANGED << files_counter, size_counter >>
     ELSE /\ files_counter' = files_counter + 1
          /\ size_counter' = size_counter + Tree[worker[w]].len
          /\ UNCHANGED dirs_counter
  /\ batch_rx' = IF batch_rx_dropped THEN batch_rx
                 ELSE Append(batch_rx, worker[w])
  /\ processed' = processed \cup {worker[w]}
  /\ produced' = IF IsSome(produced)
                  THEN Some([Unwrap(produced) EXCEPT ![w] = Append(@, worker[w])])
                  ELSE None
  /\ worker' = [worker EXCEPT ![w] = 0]
  /\ UNCHANGED << options, phase, resumed, walkPos, skip_dirs, errors_counter,
                  skipped_counter, scanPc, batcherVars, rx, writerVars,
                  diskVars, loaded, batches,
                  persisted, resumedFrom >>

\* for_each has returned: drop(batch_tx).
ScanDropSender ==
  /\ phase = "running"
  /\ scanPc = "walk"
  /\ to_walk(walkPos) = {}
  /\ \A w \in Workers : worker[w] = 0
  /\ scanPc' = "join"
  /\ UNCHANGED << options, phase, resumed, walkPos, worker, skip_dirs,
                  files_counter, dirs_counter, size_counter, errors_counter,
                  skipped_counter, batch_rx, processed, batcherVars, rx,
                  writerVars, diskVars, loaded, produced,
                  batches, persisted, resumedFrom >>

\* batch_thread.join() returns; scan_parallel returns and drops tx.
ScanJoin ==
  /\ phase = "running"
  /\ scanPc = "join"
  /\ batcherPc = "done"
  /\ scanPc' = "returned"
  /\ UNCHANGED << options, phase, resumed, walkPos, worker, skip_dirs,
                  files_counter, dirs_counter, size_counter, errors_counter,
                  skipped_counter, batch_rx, processed, batcherVars, rx,
                  writerVars, diskVars, loaded, produced,
                  batches, persisted, resumedFrom >>

(***************************************************************************)
(* The batch thread of scan_parallel.                                      *)
(***************************************************************************)
\* Variant: the buffer is handed off one record late.
batch_is_full_late(b) == Len(b) > options.batch_size

batch_is_full(b) == Len(b) >= options.batch_size

\* Variant: the record is put in front of the buffer.
push_front(b, entry) == << entry >> \o b

\* batch.push(entry)
push(b, entry) == Append(b, entry)

\* for entry in batch_rx { batch.push(entry); if batch.len() >= batch_size ...
BatcherRecv ==
  /\ phase = "running"
  /\ batcherPc = "recv"
  /\ batch_rx # << >>
  /\ batch_rx' = Tail(batch_rx)
  /\ taken' = Append(taken, Head(batch_rx))
  /\ IF batch_is_full(push(batch, Head(batch_rx)))
     THEN /\ send_batch' = push(batch, Head(batch_rx))
          /\ batch' = << >>
          /\ batcherPc' = "send"
     ELSE /\ batch' = push(batch, Head(batch_rx))
          /\ UNCHANGED << send_batch, batcherPc >>
  /\ UNCHANGED << options, phase, resumed, walkPos, worker, skip_dirs,
                  files_counter, dirs_counter, size_counter, errors_counter,
                  skipped_counter, scanPc, processed, rx, writerVars,
                  diskVars, loaded, produced,
                  batches, persisted, resumedFrom >>

\* Variant: a send on a batch channel without receiver does not fail.
rx_dropped_unnoticed == FALSE

\* consume_batches has returned an error: the writer and with it the
\* receiver of the batch channel are dropped.
rx_dropped == wpc = "failed"

\* tx_clone.send(send_batch): blocks while the batch channel is full; when
\* the receiver is dropped the send fails and the loop is left (break).
BatcherSend ==
  /\ phase = "running"
  /\ batcherPc = "send"
  /\ \/ rx_dropped
     \/ Len(rx) < channel_capacity
  /\ IF rx_dropped
     THEN /\ batcherPc' = "flush"
          /\ UNCHANGED rx
     ELSE /\ batcherPc' = "recv"
          /\ rx' = Append(rx, send_batch)
  /\ send_batch' = << >>
  /\ UNCHANGED << options, phase, resumed, walkerVars, batch, taken, writerVars,
                  diskVars, loaded, resumedFrom >>

\* The record channel is empty and its sender is dropped: the loop ends.
BatcherInputClosed ==
  /\ phase = "running"
  /\ batcherPc = "recv"
  /\ batch_rx = << >>
  /\ scanPc # "walk"
  /\ batcherPc' = "flush"
  /\ UNCHANGED << options, phase, resumed, walkerVars, batch, send_batch, taken,
                  rx, writerVars, diskVars, loaded, resumedFrom >>

\* Variant: the partial batch is not sent when the record channel closes.
remaining_dropped(b) == << >>

remaining(b) == IF b # << >> THEN << b >> ELSE << >>

\* if !batch.is_empty() { let _ = tx_clone.send(batch); } and the thread ends;
\* a failure of this send is ignored.
BatcherFlush ==
  /\ phase = "running"
  /\ batcherPc = "flush"
  /\ \/ rx_dropped
     \/ Len(rx) + Len(remaining(batch)) <= channel_capacity
  /\ rx' = IF rx_dropped THEN rx ELSE rx \o remaining(batch)
  /\ batch' = << >>
  /\ batcherPc' = "done"
  /\ UNCHANGED << options, phase, resumed, walkerVars, send_batch, taken,
                  writerVars, diskVars, loaded, resumedFrom >>

(***************************************************************************)
(* RotatingParquetWriter.  The writer thread is cut at its effects on the  *)
(* disk, so that a crash can fall between any two of them:                 *)
(*   "recv"        waiting in  for batch in rx                             *)
(*   "save_create" save_to_file, before File::create                       *)
(*   "save_write"  save_to_file, before write_all                          *)
(*   "open"        rotate, before ParquetFileWriter::new                   *)
(*   "write"       write_batch, before writer.write_batch(entries)         *)
(*   "close"       rotate, before writer.close()                           *)
(*   "done"        consume_batches has returned Ok                         *)
(*   "failed"      consume_batches has returned an error.                  *)
(***************************************************************************)

\* write_batch, "Track directory transitions": the manifest and
\* Variant: a transition starts the new directory without completing the
\* previous one.
track_directory_no_complete(m, last, d) ==
  IF IsSome(last)
  THEN IF Unwrap(last) # d
       THEN [ m |-> start_directory(m, d), save |-> TRUE ]
       ELSE [ m |-> m, save |-> FALSE ]
  ELSE [ m |-> start_directory(m, d), save |-> FALSE ]

\* last_top_level_dir after a batch whose first entry lies in directory d,
\* and whether the checkpoint is saved.
track_directory(m, last, d) ==
  IF IsSome(last)
  THEN IF Unwrap(last) # d
       THEN [ m |-> start_directory(complete_current_directory(m), d),
              save |-> TRUE ]
       ELSE [ m |-> m, save |-> FALSE ]
  ELSE [ m |-> start_directory(m, d), save |-> FALSE ]

\* write_batch after the directory tracking: "Initialize first writer if
\* needed", else write.
after_tracking(writer) == IF IsSome(writer) THEN "write" ELSE "open"

\* Variant: write_batch does not return early on an empty batch.
is_empty_never(b) == FALSE

\* entries.is_empty()
is_empty(b) == b = << >>

\* for batch in rx: write_batch(&batch) up to its first effect on the disk.
WriterRecv ==
  /\ phase = "running"
  /\ wpc = "recv"
  /\ rx # << >>
  /\ rx' = Tail(rx)
  /\ received' = received \o Head(rx)
  /\ batches' = Append(batches, Head(rx))
  /\ IF is_empty(Head(rx))
     THEN UNCHANGED << wpc, entries, saveFor, manifest, last_top_level_dir >>
     ELSE LET first == IF Head(rx) # << >> THEN Some(Head(Head(rx))) ELSE None
              t == IF IsSome(first)
                   THEN track_directory(manifest, last_top_level_dir,
                                        top_level_dir(Unwrap(first)))
                   ELSE [ m |-> manifest, save |-> FALSE ]
          IN /\ entries' = Head(rx)
             /\ manifest' = t.m
             /\ last_top_level_dir' =
                  IF IsSome(first) THEN Some(top_level_dir(Unwrap(first)))
                  ELSE last_top_level_dir
             /\ IF t.save
                THEN /\ wpc' = "save_create"
                     /\ saveFor' = "checkpoint"
                ELSE /\ wpc' = after_tracking(current_writer)
                     /\ UNCHANGED saveFor
  /\ UNCHANGED << options, phase, resumed, walkerVars, batcherVars,
                  current_writer, current_chunk, current_chunk_rows,
                  interval_elapsed,
                  diskVars, loaded, resumedFrom >>

\* save_to_file: File::create(path).
WriterSaveCreate ==
  /\ phase = "running"
  /\ wpc = "save_create"
  /\ manifestFile' = file_create
  /\ wpc' = "save_write"
  /\ UNCHANGED << options, phase, resumed, walkerVars, batcherVars, rx, entries,
                  saveFor, current_writer, current_chunk, current_chunk_rows,
                  interval_elapsed,
                  manifest, last_top_level_dir, received, chunkFiles, loaded, batches,
                  persisted, resumedFrom >>

\* Where the writer goes on after a save_to_file call.
after_save(kind, writer) ==
  CASE kind = "checkpoint" -> after_tracking(writer)
    [] kind = "rotate" -> "open"
    [] OTHER -> "done"

\* save_to_file: file.write_all(json).
WriterSaveWrite ==
  /\ phase = "running"
  /\ wpc = "save_write"
  /\ manifestFile' = write_all(manifest)
  /\ persisted' = manifest.chunks
  /\ wpc' = after_save(saveFor, current_writer)
  /\ saveFor' = "none"
  /\ UNCHANGED << options, phase, resumed, walkerVars, batcherVars, rx, entries,
                  current_writer, current_chunk, current_chunk_rows,
                  interval_elapsed,
                  manifest, last_top_level_dir, received, chunkFiles, loaded, batches,
                  resumedFrom >>

\* Variant: rotate does not advance the chunk number.
next_chunk_same(n) == n

\* rotate, "Start new chunk": the number of the chunk it opens.
next_chunk(n) == n + 1

\* rotate, second half: current_chunk += 1 and ParquetFileWriter::new.
WriterOpen ==
  /\ phase = "running"
  /\ wpc = "open"
  /\ current_chunk' = next_chunk(current_chunk)
  /\ current_chunk_rows' = 0
  /\ interval_elapsed' = FALSE
  /\ chunkFiles' = ParquetFileWriter_new(chunkFiles, next_chunk(current_chunk))
  /\ current_writer' = Some([rows_written |-> 0])
  /\ wpc' = IF entries # << >> THEN "write" ELSE "recv"
  /\ UNCHANGED << options, phase, resumed, walkerVars, batcherVars, rx, entries,
                  saveFor, manifest, last_top_level_dir, received,
                  manifestFile, loaded, batches,
                  persisted, resumedFrom >>

\* writer.write_batch(entries), current_chunk_rows += entries.len(), and the
\* rotation check; elapsed is whether time_interval has passed since the
\* chunk was opened.
WriterWrite ==
  /\ phase = "running"
  /\ wpc = "write"
  /\ chunkFiles' = ParquetFileWriter_write(chunkFiles, current_chunk, entries)
  /\ current_writer' =
       Some([rows_written |-> Unwrap(current_writer).rows_written + Len(entries)])
  /\ current_chunk_rows' = current_chunk_rows + Len(entries)
  /\ entries' = << >>
  /\ \E elapsed \in IF options.timed THEN BOOLEAN ELSE {FALSE} :
       /\ interval_elapsed' = elapsed
       /\ wpc' = IF should_rotate(current_chunk_rows + Len(entries), elapsed)
                   THEN "close" ELSE "recv"
  /\ UNCHANGED << options, phase, resumed, walkerVars, batcherVars, rx, saveFor,
                  current_chunk, manifest, last_top_level_dir, received,
                  manifestFile, loaded, batches,
                  persisted, resumedFrom >>

\* The ChunkMetadata rotate and finalize record for the chunk they close.
chunk_metadata(n, writer) ==
  [ chunk_number |-> n, row_count |-> writer.rows_written ]

\* rotate, first half: writer.close(), add_chunk; the save follows.
WriterClose ==
  /\ phase = "running"
  /\ wpc = "close"
  /\ chunkFiles' = ParquetFileWriter_close(chunkFiles, current_chunk)
  /\ manifest' = add_chunk(manifest,
                           chunk_metadata(current_chunk, Unwrap(current_writer)))
  /\ current_writer' = None
  /\ saveFor' = "rotate"
  /\ wpc' = "save_create"
  /\ UNCHANGED << options, phase, resumed, walkerVars, batcherVars, rx, entries,
                  current_chunk, current_chunk_rows,
                  interval_elapsed, last_top_level_dir,
                  received, manifestFile, loaded, batches,
                  persisted, resumedFrom >>

\* Variant: an empty batch channel counts as closed.
rx_closed_early == rx = << >>

\* Variant: a sender of the batch channel is kept alive.
rx_closed_never == FALSE

\* The batch channel is empty and every sender is dropped.
rx_closed == rx = << >> /\ scanPc = "returned"

\* finalize: close the current writer if there is one, add its chunk, mark
\* the manifest complete; the final save follows.
WriterFinalize ==
  /\ phase = "running"
  /\ wpc = "recv"
  /\ rx_closed
  /\ IF IsSome(current_writer)
     THEN /\ chunkFiles' = ParquetFileWriter_close(chunkFiles, current_chunk)
          /\ manifest' = complete(add_chunk(manifest,
                           chunk_metadata(current_chunk, Unwrap(current_writer))))
     ELSE /\ manifest' = complete(manifest)
          /\ UNCHANGED chunkFiles
  /\ current_writer' = None
  /\ saveFor' = "final"
  /\ wpc' = "save_create"
  /\ UNCHANGED << options, phase, resumed, walkerVars, batcherVars, rx, entries,
                  current_chunk, current_chunk_rows,
                  interval_elapsed, last_top_level_dir,
                  received, manifestFile, loaded, batches,
                  persisted, resumedFrom >>

(***************************************************************************)
(* run_scan: the end of a run, a crash of the process, a restart with      *)
(* --resume.                                                               *)
(***************************************************************************)

\* Scanner and writer thread have both returned.
RunFinished ==
  /\ phase = "running"
  /\ scanPc = "returned"
  /\ wpc = "done"
  /\ phase' = "finished"
  /\ UNCHANGED << options, resumed, walkerVars, batcherVars, rx, writerVars,
                  diskVars, loaded, resumedFrom >>

\* What a kill leaves of the chunk files: the rows of a chunk that was not
\* closed were in the ArrowWriter's row-group buffer (100,000 rows) and are
\* gone; the file stays, without a footer.
after_kill(files) ==
  [ n \in DOMAIN files |->
      IF files[n].state = "open" THEN [files[n] EXCEPT !.rows = << >>]
      ELSE files[n] ]

\* Variant: dropping the writer empties the closed chunk files as well.
after_drop_damaged(files) ==
  [ n \in DOMAIN files |-> [files[n] EXCEPT !.rows = << >>] ]

\* What dropping the writer without close leaves of the chunk files: as
\* after a kill, the buffered rows of the unclosed chunk are gone.
after_drop(files) == after_kill(files)

\* ParquetFileWriter::new, write_batch or close returns an error (in rotate,
\* write_batch or finalize): write_batch or finalize returns it with ?, and
\* consume_batches returns it, dropping the writer and the receiver of the
\* batch channel.  A failed ParquetFileWriter::new may or may not have
\* created the file of the new chunk.
WriterFail ==
  /\ phase = "running"
  /\ \/ wpc \in {"open", "write", "close"}
     \/ wpc = "recv" /\ rx_closed /\ IsSome(current_writer)
  /\ wpc' = "failed"
  /\ current_writer' = None
  /\ entries' = << >>
  /\ rx' = << >>
  /\ \E created \in IF wpc = "open" THEN BOOLEAN ELSE {FALSE} :
       chunkFiles' =
         after_drop(IF created
                    THEN ParquetFileWriter_new(chunkFiles, next_chunk(current_chunk))
                    ELSE chunkFiles)
  /\ UNCHANGED << options, phase, resumed, resumedFrom, walkerVars, batcherVars,
                  saveFor, current_chunk, current_chunk_rows,
                  interval_elapsed, manifest,
                  last_top_level_dir, received, batches, manifestFile,
                  persisted, loaded >>

\* save_to_file returns an error: File::create failed and the file is as
\* it was, or write_all failed and the file stays truncated.  rotate and
\* write_batch log a warning and go on; finalize returns the error with ?.
SaveFail ==
  /\ phase = "running"
  /\ wpc \in {"save_create", "save_write"}
  /\ wpc' = IF saveFor = "final" THEN "failed"
            ELSE after_save(saveFor, current_writer)
  /\ saveFor' = "none"
  /\ UNCHANGED << options, phase, resumed, resumedFrom, walkerVars, batcherVars,
                  rx, entries, current_writer, current_chunk, current_chunk_rows,
                  interval_elapsed,
                  manifest, last_top_level_dir, received, batches, diskVars,
                  loaded >>

\* The scanner has returned Ok and the writer thread has returned an error:
\* run_scan returns "Failed to write Parquet files".
RunFailed ==
  /\ phase = "running"
  /\ scanPc = "returned"
  /\ wpc = "failed"
  /\ phase' = "failed"
  /\ UNCHANGED << options, resumed, resumedFrom, walkerVars, batcherVars, rx,
                  writerVars, diskVars, loaded >>

\* The process is killed: everything but the disk is lost.
Crash ==
  /\ phase = "running"
  /\ phase' = "crashed"
  /\ StartProcess(ScanManifest_new, None)
  /\ chunkFiles' = after_kill(chunkFiles)
  /\ UNCHANGED << options, resumed, resumedFrom, manifestFile, persisted >>

\* run_scan with resume: RotatingParquetWriter::resume reads the manifest
\* file and its completed_top_level_dirs become the walker's skip set.
Resume ==
  /\ phase \in {"crashed", "finished"}
  /\ ~resumed
  /\ manifestFile.state # "truncated"
  /\ resumed' = TRUE
  /\ resumedFrom' = phase
  /\ phase' = "running"
  /\ StartProcess(resume_manifest(manifestFile),
                  Some(resume_manifest(manifestFile).completed_top_level_dirs))
  /\ UNCHANGED << options, diskVars >>

\* load_from_file fails on a manifest file that is not complete JSON.
ResumeFails ==
  /\ phase \in {"crashed", "finished"}
  /\ ~resumed
  /\ manifestFile.state = "truncated"
  /\ resumed' = TRUE
  /\ resumedFrom' = phase
  /\ phase' = "resume_failed"
  /\ StartProcess(ScanManifest_new, None)
  /\ UNCHANGED << options, diskVars >>

Next ==
  \/ \E w \in Workers : WorkerTake(w)
  \/ \E w \in Workers : WorkerError(w)
  \/ \E w \in Workers : WorkerSkip(w)
  \/ \E w \in Workers : WorkerEmit(w)
  \/ ScanDropSender
  \/ ScanJoin
  \/ BatcherRecv
  \/ BatcherSend
  \/ BatcherInputClosed
  \/ BatcherFlush
  \/ WriterRecv
  \/ WriterSaveCreate
  \/ WriterSaveWrite
  \/ WriterOpen
  \/ WriterWrite
  \/ WriterClose
  \/ WriterFinalize
  \/ RunFinished
  \/ Crash
  \/ Resume
  \/ ResumeFails

Spec == Init /\ [][Next]_vars

SpecWalker == InitWalker /\ [][Next]_vars

\* One scan that is not killed and not resumed (so nothing is skipped), in
\* which the Parquet writer and the manifest save can return errors.
NextFaults ==
  \/ \E w \in Workers : WorkerTake(w)
  \/ \E w \in Workers : WorkerError(w)
  \/ \E w \in Workers : WorkerEmit(w)
  \/ ScanDropSender
  \/ ScanJoin
  \/ BatcherRecv
  \/ BatcherSend
  \/ BatcherInputClosed
  \/ BatcherFlush
  \/ WriterRecv
  \/ WriterSaveCreate
  \/ WriterSaveWrite
  \/ WriterOpen
  \/ WriterWrite
  \/ WriterClose
  \/ WriterFinalize
  \/ RunFinished
  \/ WriterFail
  \/ SaveFail
  \/ RunFailed

SpecFaults == Init /\ [][NextFaults]_vars

\* One scan that is not killed and not resumed and whose writer does not
\* fail, thread by thread: the rayon workers, the thread that runs
\* scan_parallel, the batch thread, the writer thread and run_scan.
WorkerSteps(w) == WorkerTake(w) \/ WorkerError(w) \/ WorkerEmit(w)

ScanSteps == ScanDropSender \/ ScanJoin

BatcherSteps ==
  BatcherRecv \/ BatcherSend \/ BatcherInputClosed \/ BatcherFlush

WriterSteps ==
  \/ WriterRecv
  \/ WriterSaveCreate
  \/ WriterSaveWrite
  \/ WriterOpen
  \/ WriterWrite
  \/ WriterClose
  \/ WriterFinalize

NextScan ==
  \/ \E w \in Workers : WorkerSteps(w)
  \/ ScanSteps
  \/ BatcherSteps
  \/ WriterSteps
  \/ RunFinished

\* A sender of the batch channel sends an empty batch, once in a scan.
SendEmptyBatch ==
  /\ phase = "running"
  /\ scanPc # "returned"
  /\ Len(rx) < channel_capacity
  /\ << >> \notin Range(rx) \cup Range(batches)
  /\ rx' = Append(rx, << >>)
  /\ UNCHANGED << options, phase, resumed, resumedFrom, walkerVars, batcherVars,
                  writerVars, diskVars, loaded >>

\* One scan on whose batch channel an empty batch may arrive.
NextEmpty ==
  \/ NextScan
  \/ SendEmptyBatch

SpecEmpty == Init /\ [][NextEmpty]_vars

\* Every thread that can take a step eventually takes one.
SpecScan ==
  /\ Init
  /\ [][NextScan]_vars
  /\ \A w \in Workers : WF_vars(WorkerSteps(w))
  /\ WF_vars(ScanSteps)
  /\ WF_vars(BatcherSteps)
  /\ WF_vars(WriterSteps)
  /\ WF_vars(RunFinished)

(***************************************************************************)
(* Vocabulary of the properties.                                           *)
(***************************************************************************)

\* Entries the walker has sent downstream in this run that write_batch has
\* not yet written to a chunk.
InFlight ==
  Range(batch_rx) \cup Range(batch) \cup Range(send_batch)
    \cup Range(Flatten(rx)) \cup Range(entries)

\* The entries of the tree whose metadata can be read.
Readable == { i \in Ids : ~Tree[i].err }

\* The rows of the chunks a manifest lists, chunk after chunk.
RECURSIVE RowsOf(_, _)
RowsOf(chunks, files) ==
  IF chunks = << >> THEN << >>
  ELSE (IF Head(chunks).chunk_number \in DOMAIN files
        THEN files[Head(chunks).chunk_number].rows ELSE << >>)
       \o RowsOf(Tail(chunks), files)

RECURSIVE SumRowCount(_)
SumRowCount(chunks) ==
  IF chunks = << >> THEN 0
  ELSE Head(chunks).row_count + SumRowCount(Tail(chunks))

\* The chunks the writer added to its manifest in this run.
NewChunks == SubSeq(manifest.chunks, Len(loaded.chunks) + 1, Len(manifest.chunks))

RECURSIVE SumOfLen(_)
SumOfLen(S) ==
  IF S = {} THEN 0
  ELSE LET i == CHOOSE x \in S : TRUE IN Tree[i].len + SumOfLen(S \ {i})

(***************************************************************************)
(* C1.  Whenever the manifest on disk lists a top-level directory d as     *)
(* completed, no entry of d that the walker has sent downstream is still   *)
(* waiting to be written: all rows of d were written before d was          *)
(* recorded as completed.                                                  *)
(***************************************************************************)
C1_CompletedDirsAreWritten ==
  manifestFile.state = "intact" =>
    \A i \in InFlight :
      top_level_dir(i) \notin manifestFile.m.completed_top_level_dirs

(***************************************************************************)
(* C2.  Resume is at-least-once: when a resumed run has finalized, every   *)
(* readable entry of the tree is a row of a chunk the final manifest       *)
(* lists.                                                                  *)
(***************************************************************************)
C2_ResumeAtLeastOnce ==
  (phase = "finished" /\ resumed) =>
    Readable \subseteq Range(RowsOf(manifestFile.m.chunks, chunkFiles))


(***************************************************************************)
(* C3.  No entry whose top_level_dir is in the skip set is downstream of   *)
(* the walker; every such entry the workers handled counts once in         *)
(* skipped_counter and in no other counter; in a resumed run the skip set  *)
(* is the completed_top_level_dirs of the manifest that was loaded.        *)
(***************************************************************************)
InSkipSet(i) == IsSome(skip_dirs) /\ top_level_dir(i) \in Unwrap(skip_dirs)

C3_SkipFilter ==
  /\ \A i \in InFlight \cup Range(received) : ~InSkipSet(i)
  /\ skipped_counter = Cardinality({ i \in processed \cap Readable : InSkipSet(i) })
  /\ files_counter =
       Cardinality({ i \in processed \cap Readable :
                       ~InSkipSet(i) /\ ~Tree[i].is_dir })
  /\ dirs_counter =
       Cardinality({ i \in processed \cap Readable :
                       ~InSkipSet(i) /\ Tree[i].is_dir })
  /\ size_counter =
       SumOfLen({ i \in processed \cap Readable :
                    ~InSkipSet(i) /\ ~Tree[i].is_dir })
  /\ (phase = "running" /\ resumed) =>
       skip_dirs = Some(loaded.completed_top_level_dirs)

\* A resumed run that skipped entries of a completed directory and wrote
\* others has finished.
C3_Witness ==
  /\ phase = "finished"
  /\ resumed
  /\ skipped_counter >= 2
  /\ received # << >>

(***************************************************************************)
(* C4.  Every chunk listed in a manifest that is on disk is a closed chunk *)
(* file holding the listed number of rows, in every state, so also in the  *)
(* state a crash leaves.                                                   *)
(***************************************************************************)
C4_ListedChunksAreClosed ==
  manifestFile.state = "intact" =>
    \A k \in 1..Len(manifestFile.m.chunks) :
      LET c == manifestFile.m.chunks[k]
      IN /\ c.chunk_number \in DOMAIN chunkFiles
         /\ chunkFiles[c.chunk_number].state = "closed"
         /\ Len(chunkFiles[c.chunk_number].rows) = c.row_count

\* A crash that left a manifest listing a chunk next to a chunk file that
\* was still open.
C4_Witness ==
  /\ phase = "crashed"
  /\ manifestFile.state = "intact"
  /\ Len(manifestFile.m.chunks) >= 1
  /\ \E n \in DOMAIN chunkFiles : chunkFiles[n].state = "open"

(***************************************************************************)
(* C5.  Saving the manifest is atomic: the manifest file is never empty,   *)
(* truncated or partially written, whenever the process may be killed.     *)
(***************************************************************************)
C5_ManifestSaveIsAtomic ==
  manifestFile.state # "truncated"

(***************************************************************************)
(* C6.  Nothing is dropped between walker and writer: when the run has     *)
(* finished, the rows received and written in it are as many as            *)
(* files_scanned + directories_scanned.                                    *)
(***************************************************************************)
C6_NoDataDropped ==
  phase = "finished" =>
    /\ Len(received) = files_counter + dirs_counter
    /\ manifest.total_rows - loaded.total_rows = files_counter + dirs_counter

\* A first scan with batches of two has finished: four entries were sent,
\* one could not be read.
C6_Witness ==
  /\ phase = "finished"
  /\ ~resumed
  /\ options.batch_size = 2
  /\ files_counter + dirs_counter = 4
  /\ errors_counter = 1

(***************************************************************************)
(* C7.  When consume_batches has returned, the chunks added in this run    *)
(* hold exactly the entries it received, each once and in order, and the   *)
(* row counts recorded for them and total_rows account for exactly these.  *)
(***************************************************************************)
C7_RowCountRoundTrip ==
  wpc = "done" =>
    /\ RowsOf(NewChunks, chunkFiles) = received
    /\ SumRowCount(NewChunks) = Len(received)
    /\ manifest.total_rows = loaded.total_rows + Len(received)
    /\ ~resumed => manifest.total_rows = Len(received)

\* A writer that received four entries and spread them over several chunks
\* has returned.
C7_Witness ==
  /\ wpc = "done"
  /\ Len(received) = 4
  /\ Len(NewChunks) >= 2

(***************************************************************************)
(* C8.  In the writer's manifest, total_rows is the sum of the chunks'     *)
(* row_count and chunk_count is the number of chunks.                      *)
(***************************************************************************)
C8_ManifestTotals ==
  /\ manifest.total_rows = SumRowCount(manifest.chunks)
  /\ manifest.chunk_count = Len(manifest.chunks)

\* A resumed writer whose manifest lists chunks of both runs.
C8_Witness ==
  /\ resumed
  /\ Len(loaded.chunks) >= 1
  /\ Len(manifest.chunks) >= Len(loaded.chunks) + 2

(***************************************************************************)
(* C9.  Chunk numbers are 0-indexed and dense: the i-th chunk of the       *)
(* manifest (counting from 0) has chunk_number i.                          *)
(***************************************************************************)
C9_ChunkNumbersFromZero ==
  \A k \in 1..Len(manifest.chunks) : manifest.chunks[k].chunk_number = k - 1

(***************************************************************************)
(* C10.  After a resume from a manifest with chunk_count = n, the first    *)
(* chunk the writer opens has chunk_number n, a number no chunk of the     *)
(* loaded manifest has.                                                    *)
(***************************************************************************)
C10_ResumeOpensChunkCount ==
  (resumed /\ IsSome(current_writer) /\ Len(manifest.chunks) = Len(loaded.chunks)) =>
    /\ current_chunk = loaded.chunk_count
    /\ \A k \in 1..Len(loaded.chunks) :
         loaded.chunks[k].chunk_number # current_chunk

(***************************************************************************)
(* C11.  In the writer's manifest and in every manifest on disk, the       *)
(* directory in progress (current_top_level_dir) is not one of the         *)
(* completed_top_level_dirs, whatever the order of the batches.            *)
(***************************************************************************)
CurrentNotCompleted(m) ==
  IsSome(m.current_top_level_dir) =>
    Unwrap(m.current_top_level_dir) \notin m.completed_top_level_dirs

C11_CurrentDirNotCompleted ==
  /\ CurrentNotCompleted(manifest)
  /\ manifestFile.state = "intact" => CurrentNotCompleted(manifestFile.m)

(***************************************************************************)
(* C12.  After a clean finalize the manifest is completed and its          *)
(* completed_top_level_dirs hold the top-level directory of every batch    *)
(* that was written, the last one included.                                *)
(***************************************************************************)
BatchDirs == { top_level_dir(Head(batches[k])) : k \in 1..Len(batches) }

C12_FinalizeCompletesLastDir ==
  wpc = "done" =>
    /\ manifest.completed
    /\ BatchDirs \subseteq manifest.completed_top_level_dirs

(***************************************************************************)
(* C13.  A run resumed from the manifest of a scan that finalized, on the  *)
(* unchanged tree, hands no batch to the writer and adds no chunk.         *)
(***************************************************************************)
C13_ResumeOfCompletedIsNoOp ==
  (resumed /\ resumedFrom = "finished") =>
    /\ batches = << >>
    /\ Len(manifest.chunks) = Len(loaded.chunks)

(***************************************************************************)
(* C14.  Rows are durable: a chunk named by a manifest that was written    *)
(* to disk is never opened, truncated or written again, and the chunk      *)
(* list of every manifest written later, in this run or in the resumed     *)
(* one, extends the earlier list unchanged.                                *)
(***************************************************************************)
C14_PersistedChunksAreDurable ==
  [][ /\ manifestFile.state = "intact" => manifestFile.m.chunks = persisted
      /\ \A k \in 1..Len(persisted) :
           /\ persisted[k].chunk_number \in DOMAIN chunkFiles'
           /\ chunkFiles'[persisted[k].chunk_number]
                = chunkFiles[persisted[k].chunk_number]
           /\ Len(persisted') >= k
           /\ persisted'[k] = persisted[k] ]_vars

\* After a crash, the resumed run has written a manifest that lists a new
\* chunk after the chunks of the manifest it loaded.
C14_Witness ==
  /\ resumedFrom = "crashed"
  /\ Len(loaded.chunks) >= 1
  /\ manifestFile.state = "intact"
  /\ Len(manifestFile.m.chunks) > Len(loaded.chunks)

(***************************************************************************)
(* C15.  A manifest with completed = true has scan_end set, in memory and  *)
(* on disk; the manifest a resumed writer starts from has completed =      *)
(* false and scan_end = None, also when the manifest on disk was           *)
(* completed.                                                              *)
(***************************************************************************)
C15_CompletedHasScanEnd ==
  /\ manifest.completed => IsSome(manifest.scan_end)
  /\ manifestFile.state = "intact" =>
       (manifestFile.m.completed => IsSome(manifestFile.m.scan_end))
  /\ resumed => (~loaded.completed /\ loaded.scan_end = None)
  /\ (resumed /\ phase = "running" /\ batches = << >> /\ wpc = "recv") =>
       (~manifest.completed /\ manifest.scan_end = None)

\* A writer resumed from a completed manifest is running and the completed
\* manifest is still the one on disk.
C15_Witness ==
  /\ resumedFrom = "finished"
  /\ phase = "running"
  /\ wpc = "recv"
  /\ manifestFile.state = "intact"
  /\ manifestFile.m.completed
  /\ ~manifest.completed

(***************************************************************************)
(* C16.  Rotation happens only between batches: every batch write_batch    *)
(* has dealt with lies, whole and in order, in one chunk file of this run, *)
(* also when it makes the chunk exceed rows_per_chunk.                     *)
(***************************************************************************)
ContainsBatch(rows, b) ==
  \E j \in 0..(Len(rows) - Len(b)) : SubSeq(rows, j + 1, j + Len(b)) = b

BatchInProgress(k) == k = Len(batches) /\ entries # << >>

C16_BatchInOneChunk ==
  \A k \in 1..Len(batches) :
    ~BatchInProgress(k) =>
      \E n \in DOMAIN chunkFiles :
        /\ n > loaded.chunk_count
        /\ ContainsBatch(chunkFiles[n].rows, batches[k])

\* With rows_per_chunk = 1 two batches of two entries have been written, and
\* a closed chunk of this run holds two rows.
C16_Witness ==
  /\ options.rows_per_chunk = 1
  /\ Len(batches) >= 2
  /\ entries = << >>
  /\ \A k \in 1..Len(batches) : Len(batches[k]) = 2
  /\ \E n \in DOMAIN chunkFiles :
       /\ n > loaded.chunk_count
       /\ chunkFiles[n].state = "closed"
       /\ Len(chunkFiles[n].rows) = 2

(***************************************************************************)
(* C17.  When the time interval never elapses, the row counts of the       *)
(* chunks a finalized run added are the greedy partition of its batch      *)
(* sizes: a chunk ends with the first batch that brings it to at least     *)
(* rows_per_chunk rows, the last chunk holds the remainder.                *)
(***************************************************************************)
RECURSIVE GreedyPartition(_, _)
GreedyPartition(sizes, acc) ==
  IF sizes = << >>
  THEN IF acc > 0 THEN << acc >> ELSE << >>
  ELSE IF acc + Head(sizes) >= options.rows_per_chunk
       THEN << acc + Head(sizes) >> \o GreedyPartition(Tail(sizes), 0)
       ELSE GreedyPartition(Tail(sizes), acc + Head(sizes))

C17_GreedyPartition ==
  (wpc = "done" /\ ~options.timed) =>
    /\ [k \in 1..Len(NewChunks) |-> NewChunks[k].row_count]
         = GreedyPartition([k \in 1..Len(batches) |-> Len(batches[k])], 0)
    /\ manifest.completed

(***************************************************************************)
(* C18.  With rows_per_chunk = 1 a finalized run has added as many chunks  *)
(* as it has written batches.                                              *)
(***************************************************************************)
C18_OneChunkPerBatch ==
  (wpc = "done" /\ options.rows_per_chunk = 1) =>
    Len(NewChunks) = Len(batches)

C20_BatchesAreHomogeneous ==
  \A k \in 1..Len(rx) :
    \A i, j \in Range(rx[k]) : top_level_dir(i) = top_level_dir(j)

(***************************************************************************)
(* C21.  Every batch the batch thread sends is non-empty and has at most   *)
(* batch_size entries; a buffer that reaches batch_size entries is handed  *)
(* off at once, so the buffer being filled is always shorter.              *)
(***************************************************************************)
C21_BatchSizes ==
  /\ \A b \in Range(batches) \cup Range(rx) :
       Len(b) >= 1 /\ Len(b) <= options.batch_size
  /\ batcherPc = "send" => Len(send_batch) = options.batch_size
  /\ Len(batch) < options.batch_size

\* With batch_size = 2 a full batch and then a flushed partial batch have
\* reached the writer.
C21_Witness ==
  /\ options.batch_size = 2
  /\ batcherPc = "done"
  /\ Len(batches) = 2
  /\ Len(batches[1]) = 2
  /\ Len(batches[2]) = 1

(***************************************************************************)
(* C22.  The batch thread is lossless and order-preserving: while the      *)
(* batch channel is open, the batches it has sent, concatenated, followed  *)
(* by its buffer, are the records it received, in order; when it has       *)
(* ended, the partial batch has been sent and nothing is left behind.      *)
(***************************************************************************)
C22_BatcherLossless ==
  ~rx_dropped =>
    /\ Flatten(batches \o rx) \o send_batch \o batch = taken
    /\ batcherPc = "done" =>
         /\ batch = << >>
         /\ send_batch = << >>
         /\ Flatten(batches \o rx) = taken

\* The batch thread has ended after three records that did not arrive in
\* the order of the tree, the last one in a partial batch.
C22_Witness ==
  /\ batcherPc = "done"
  /\ ~rx_dropped
  /\ options.batch_size = 2
  /\ Len(taken) = 3
  /\ taken[1] > taken[2]

(***************************************************************************)
(* C23.  An entry that cannot be read is not fatal: it counts once in      *)
(* errors_counter and in no other counter, no record of it goes            *)
(* downstream, and the scan goes on until every entry of the walk has      *)
(* been handled and returns.                                               *)
(***************************************************************************)
C23_EntryErrorsNotFatal ==
  /\ errors_counter = Cardinality({ i \in processed : Tree[i].err })
  /\ files_counter + dirs_counter + skipped_counter
       = Cardinality({ i \in processed : ~Tree[i].err })
  /\ \A i \in InFlight \cup Range(received) \cup Range(taken) : ~Tree[i].err
  /\ scanPc = "returned" => processed = to_walk(1)

\* The scan has returned with one error counted and four records passed on.
C23_Witness ==
  /\ scanPc = "returned"
  /\ errors_counter = 1
  /\ Len(taken) = 4

(***************************************************************************)
(* C24.  A writer error is fatal and leaves the closed chunks valid: the   *)
(* step in which opening, writing or closing a chunk fails ends            *)
(* consume_batches without finalizing and writes no manifest, nothing is   *)
(* written to the disk afterwards, no manifest on disk is completed, and   *)
(* every chunk of the last manifest written stays listed, closed and with  *)
(* its row_count.                                                          *)
(***************************************************************************)
C24_WriterErrorKeepsClosedChunks ==
  [][ /\ (wpc \notin {"save_create", "save_write", "failed"} /\ wpc' = "failed") =>
           /\ ~manifest'.completed
           /\ manifestFile' = manifestFile
           /\ persisted' = persisted
      /\ (wpc = "failed" /\ wpc' = "failed") =>
           (chunkFiles' = chunkFiles /\ manifestFile' = manifestFile)
      /\ wpc' = "failed" =>
           /\ manifestFile'.state = "intact" => ~manifestFile'.m.completed
           /\ \A k \in 1..Len(persisted) :
                /\ persisted[k].chunk_number \in DOMAIN chunkFiles'
                /\ chunkFiles'[persisted[k].chunk_number]
                     = chunkFiles[persisted[k].chunk_number]
                /\ chunkFiles'[persisted[k].chunk_number].state = "closed"
                /\ Len(chunkFiles'[persisted[k].chunk_number].rows)
                     = persisted[k].row_count ]_vars

\* The run has failed on a writer error after a manifest listing a chunk
\* was written, and an unclosed chunk file is left behind.
C24_Witness ==
  /\ phase = "failed"
  /\ ~manifest.completed
  /\ manifestFile.state = "intact"
  /\ Len(manifestFile.m.chunks) >= 1
  /\ \E n \in DOMAIN chunkFiles : chunkFiles[n].state = "open"

(***************************************************************************)
(* C25.  A failure to save the manifest never aborts the scan: whichever   *)
(* save_to_file call fails, the writer goes on and does not return an      *)
(* error.                                                                  *)
(***************************************************************************)
C25_SaveFailureNeverAborts ==
  [][ (wpc \in {"save_create", "save_write"}) => (wpc' # "failed") ]_vars

(***************************************************************************)
(* C26.  When the receiver of the batch channel is dropped while the scan  *)
(* runs, nothing upstream stays blocked: the batch thread's sends return   *)
(* at once, the workers' sends return once the batch thread has left its   *)
(* loop, and as long as the scan has not returned some step of the walker  *)
(* or of the batch thread can be taken.                                    *)
(***************************************************************************)
Upstream ==
  \/ \E w \in Workers : WorkerTake(w)
  \/ \E w \in Workers : WorkerError(w)
  \/ \E w \in Workers : WorkerEmit(w)
  \/ ScanDropSender
  \/ ScanJoin
  \/ BatcherRecv
  \/ BatcherSend
  \/ BatcherInputClosed
  \/ BatcherFlush

C26_DroppedReceiverShutsDown ==
  (phase = "running" /\ wpc = "failed") =>
    /\ scanPc # "returned" => ENABLED Upstream
    /\ batcherPc = "send" => ENABLED BatcherSend
    /\ batcherPc = "flush" => ENABLED BatcherFlush
    /\ batcherPc \in {"flush", "done"} =>
         \A w \in Workers :
           worker[w] # 0 => ENABLED (WorkerError(w) \/ WorkerEmit(w))

\* The scan has returned although the writer failed after its first batch
\* and records sent later were refused.
C26_Witness ==
  /\ phase = "failed"
  /\ scanPc = "returned"
  /\ processed = Ids
  /\ Len(batches) = 1
  /\ Len(taken) < files_counter + dirs_counter


(***************************************************************************)
(* The records the workers have sent in this run: one event per worker and *)
(* position of its history.                                                *)
(***************************************************************************)
EmitEvents ==
  IF IsSome(produced)
  THEN { e \in Workers \X Ids : e[2] <= Len(Unwrap(produced)[e[1]]) }
  ELSE {}

EmittedAt(e) == Unwrap(produced)[e[1]][e[2]]

TimesEmitted(i) == Cardinality({ e \in EmitEvents : EmittedAt(e) = i })

(***************************************************************************)
(* C27.  max_depth is inclusive: in a scan with max_depth = m that resumes *)
(* nothing, no entry is emitted twice, no entry of depth > m is emitted,   *)
(* and once the walk is over every readable entry of depth <= m has been   *)
(* emitted exactly once; with max_depth = 0 only the scan root is emitted. *)
(***************************************************************************)
C27_MaxDepthInclusive ==
  (IsSome(produced) /\ ~resumed /\ IsSome(options.max_depth)) =>
    LET m == Unwrap(options.max_depth)
    IN /\ \A i \in Ids : TimesEmitted(i) <= 1
       /\ \A i \in Ids : depth(i) > m => TimesEmitted(i) = 0
       /\ scanPc # "walk" =>
            \A i \in Ids :
              (~Tree[i].err /\ depth(i) <= m) => TimesEmitted(i) = 1
       /\ m = 0 => \A e \in EmitEvents : Tree[EmittedAt(e)].path = << >>

\* A scan with max_depth = 1 has returned after emitting the root and the
\* two directories of depth 1, and nothing of depth 2.
C27_Witness ==
  /\ IsSome(produced)
  /\ ~resumed
  /\ options.max_depth = Some(1)
  /\ scanPc = "returned"
  /\ { i \in Ids : TimesEmitted(i) = 1 } = { i \in Ids : depth(i) <= 1 }
  /\ \E i \in Ids : depth(i) > 1

(***************************************************************************)
(* The entries scan_parallel has sent downstream in this run, in the order *)
(* of the batch channel.                                                   *)
(***************************************************************************)
Delivered == Flatten(batches \o rx)

(***************************************************************************)
(* C28.  Once scan_parallel has returned, the set of entries delivered     *)
(* downstream is the set of the readable, unfiltered entries of the tree   *)
(* within max_depth: it depends on the tree and on the options other than  *)
(* num_threads only, so it is the same for num_threads = 1 and for every   *)
(* larger num_threads, whatever the interleaving of the workers.           *)
(***************************************************************************)
C28_SameSetForAnyThreads ==
  scanPc = "returned" =>
    Range(Delivered) =
      { i \in Ids : /\ ~Tree[i].err
                    /\ ~InSkipSet(i)
                    /\ IsSome(options.max_depth)
                         => depth(i) <= Unwrap(options.max_depth) }

\* A scan with two workers has returned; both workers have sent records and
\* the records were delivered in another order than the iterator's.
C28_Witness ==
  /\ scanPc = "returned"
  /\ options.num_threads = 2
  /\ IsSome(produced)
  /\ \A w \in 1..2 : Unwrap(produced)[w] # << >>
  /\ Len(Delivered) = 4
  /\ \E a, b \in 1..Len(Delivered) : a < b /\ Delivered[a] > Delivered[b]

(***************************************************************************)
(* C29.  For every entry FileEntry::from_path has built, file_type is      *)
(* "directory" if and only if the entry is a directory.                    *)
(***************************************************************************)
C29_DirectoryTypeIffDirectory ==
  \A i \in processed :
    ~Tree[i].err => (file_type(i) = "directory" <=> Tree[i].is_dir)

(***************************************************************************)
(* C30.  The step that writes a batch goes on to rotate if and only if the *)
(* chunk now holds at least rows_per_chunk rows or time_interval has       *)
(* passed since the chunk was opened.  The rotation closes the current     *)
(* chunk, records it, saves the manifest and opens the chunk whose number  *)
(* is the closed chunk's number plus one.                                  *)
(***************************************************************************)
C30_RotateWhenDue ==
  [][ phase' = "running" =>
        /\ (wpc = "write" /\ wpc' # "write") =>
             /\ wpc' \in {"close", "recv"}
             /\ wpc' = "close" <=>
                  \/ current_chunk_rows' >= options.rows_per_chunk
                  \/ interval_elapsed'
        /\ (wpc = "close" /\ wpc' # "close") =>
             /\ chunkFiles'[current_chunk].state = "closed"
             /\ manifest'.chunks[Len(manifest'.chunks)].chunk_number
                  = current_chunk
             /\ wpc' = "save_create"
             /\ saveFor' = "rotate"
        /\ (saveFor = "rotate" /\ saveFor' # "rotate") => wpc' = "open"
        /\ (wpc = "open" /\ entries = << >> /\ wpc' # "open") =>
             /\ manifest.chunks[Len(manifest.chunks)].chunk_number
                  = current_chunk
             /\ current_chunk' = current_chunk + 1
             /\ chunkFiles'[current_chunk'].state = "open"
             /\ chunkFiles'[current_chunk].state = "closed"
             /\ IsSome(current_writer')
             /\ current_chunk_rows' = 0
    ]_vars

\* A rotation after a write has opened the chunk after the one it closed;
\* the closed chunk holds fewer rows than rows_per_chunk, so the rotation
\* was due to the time interval.
C30_Witness ==
  /\ phase = "running"
  /\ ~resumed
  /\ entries = << >>
  /\ IsSome(current_writer)
  /\ current_chunk_rows = 0
  /\ manifest.chunks # << >>
  /\ LET last == manifest.chunks[Len(manifest.chunks)]
     IN /\ last.chunk_number + 1 = current_chunk
        /\ last.row_count < options.rows_per_chunk
  /\ \E k \in 1..Len(manifest.chunks) :
       manifest.chunks[k].row_count >= options.rows_per_chunk

(***************************************************************************)
(* C31.  Every chunk recorded in the manifest, in memory or on disk, has   *)
(* row_count <= rows_per_chunk + batch_size - 1.                           *)
(***************************************************************************)
C31_ChunkSizeBound ==
  /\ \A k \in 1..Len(manifest.chunks) :
       manifest.chunks[k].row_count
         <= options.rows_per_chunk + options.batch_size - 1
  /\ manifestFile.state = "intact" =>
       \A k \in 1..Len(manifestFile.m.chunks) :
         manifestFile.m.chunks[k].row_count
           <= options.rows_per_chunk + options.batch_size - 1

\* A recorded chunk exceeds rows_per_chunk by batch_size - 1 rows.
C31_Witness ==
  \E k \in 1..Len(manifest.chunks) :
    /\ manifest.chunks[k].row_count > options.rows_per_chunk
    /\ manifest.chunks[k].row_count
         = options.rows_per_chunk + options.batch_size - 1

(***************************************************************************)
(* C32.  The step that resumes a scan gives the writer the manifest read   *)
(* from the file with completed = false and scan_end = None and every      *)
(* other field as in the file; when there is no manifest file the writer   *)
(* starts from a fresh empty manifest.                                     *)
(***************************************************************************)
C32_ResumeKeepsManifest ==
  [][ (~resumed /\ resumed' /\ phase' = "running") =>
        IF manifestFile.state = "absent"
        THEN manifest' = ScanManifest_new
        ELSE /\ manifestFile.state = "intact"
             /\ manifest'.chunks = manifestFile.m.chunks
             /\ manifest'.total_rows = manifestFile.m.total_rows
             /\ manifest'.chunk_count = manifestFile.m.chunk_count
             /\ manifest'.completed_top_level_dirs
                  = manifestFile.m.completed_top_level_dirs
             /\ manifest'.current_top_level_dir
                  = manifestFile.m.current_top_level_dir
             /\ manifest'.completed = FALSE
             /\ manifest'.scan_end = None
    ]_vars

\* A finished scan has just been resumed: the file says completed, the
\* writer's manifest has its chunks and completed directories and is not
\* completed.
C32_Witness ==
  /\ resumed
  /\ phase = "running"
  /\ resumedFrom = "finished"
  /\ received = << >>
  /\ manifestFile.state = "intact"
  /\ manifestFile.m.completed
  /\ ~manifest.completed
  /\ manifest.chunks # << >>
  /\ manifest.chunks = manifestFile.m.chunks
  /\ manifest.completed_top_level_dirs # {}

(***************************************************************************)
(* C33.  While the writer is about to write the first batch of a run, the  *)
(* manifest in memory and the manifest on disk both name the top-level     *)
(* directory of the batch's first entry as the current one.                *)
(***************************************************************************)
C33_FirstDirPersisted ==
  (phase = "running" /\ Len(batches) = 1 /\ entries # << >>
     /\ wpc \in {"open", "write"}) =>
    LET d == top_level_dir(Head(entries))
    IN /\ manifest.current_top_level_dir = Some(d)
       /\ manifestFile.state = "intact"
       /\ manifestFile.m.current_top_level_dir = Some(d)

(***************************************************************************)
(* C34.  A batch whose first entry lies in another top-level directory d   *)
(* than the batch before it (directory d_prev) makes the writer, in one    *)
(* step, add d_prev to completed_top_level_dirs and set                    *)
(* current_top_level_dir to d, and go on to save the manifest; whenever    *)
(* the manifest file is written it holds the manifest in memory, and while *)
(* the writer is about to write the rows of such a batch the file on disk  *)
(* shows both changes.                                                     *)
(***************************************************************************)
C34_TransitionIsOneUpdate ==
  [][ /\ (phase' = "running" /\ Len(batches') = Len(batches) + 1
            /\ IsSome(last_top_level_dir) /\ entries' # << >>
            /\ top_level_dir(Head(entries')) # Unwrap(last_top_level_dir)) =>
           /\ manifest'.completed_top_level_dirs
                = manifest.completed_top_level_dirs
                    \cup {Unwrap(last_top_level_dir)}
           /\ manifest'.current_top_level_dir
                = Some(top_level_dir(Head(entries')))
           /\ wpc' = "save_create"
           /\ chunkFiles' = chunkFiles
      /\ (manifestFile' # manifestFile /\ manifestFile'.state = "intact") =>
           manifestFile'.m = manifest
      /\ (phase = "running" /\ Len(batches) >= 2 /\ entries # << >>
            /\ wpc \in {"open", "write"}
            /\ top_level_dir(Head(batches[Len(batches) - 1]))
                 # top_level_dir(Head(entries))) =>
           /\ manifestFile.state = "intact"
           /\ top_level_dir(Head(batches[Len(batches) - 1]))
                \in manifestFile.m.completed_top_level_dirs
           /\ manifestFile.m.current_top_level_dir
                = Some(top_level_dir(Head(entries)))
    ]_vars

\* The writer is about to write a batch of another directory than the
\* batch before it, and the manifest file shows the transition.
C34_Witness ==
  /\ phase = "running"
  /\ wpc = "write"
  /\ Len(batches) >= 2
  /\ entries # << >>
  /\ top_level_dir(Head(batches[Len(batches) - 1]))
       # top_level_dir(Head(entries))
  /\ manifestFile.state = "intact"
  /\ top_level_dir(Head(batches[Len(batches) - 1]))
       \in manifestFile.m.completed_top_level_dirs
  /\ manifestFile.m.current_top_level_dir = Some(top_level_dir(Head(entries)))

(***************************************************************************)
(* C35.  The record channel never holds more than 2 * batch_size entries   *)
(* and the batch channel never more than 2 * batch_size batches.  While    *)
(* its receiver lives, a full channel blocks its senders, and no item is   *)
(* dropped or overwritten: every record a worker has sent is in the record *)
(* channel or was received by the batch thread, and every record the batch *)
(* thread received is in its buffers, in the batch channel or was received *)
(* by the writer.                                                          *)
(***************************************************************************)
C35_ChannelsAreBounded ==
  /\ Len(batch_rx) <= 2 * options.batch_size
  /\ Len(rx) <= 2 * options.batch_size
  /\ (phase = "running" /\ ~batch_rx_dropped
        /\ Len(batch_rx) >= 2 * options.batch_size) =>
       \A w \in Workers : ~ENABLED WorkerEmit(w)
  /\ (phase = "running" /\ ~rx_dropped
        /\ Len(rx) >= 2 * options.batch_size) =>
       /\ ~ENABLED BatcherSend
       /\ batch # << >> => ~ENABLED BatcherFlush
  /\ files_counter + dirs_counter = Len(taken) + Len(batch_rx)
  /\ Len(taken)
       = Len(Flatten(batches)) + Len(Flatten(rx)) + Len(send_batch) + Len(batch)

\* The batch channel is full and the batch thread waits with a full batch.
C35_Witness ==
  /\ phase = "running"
  /\ Len(rx) = 2 * options.batch_size
  /\ batcherPc = "send"
  /\ send_batch # << >>
  /\ ~rx_dropped

(***************************************************************************)
(* C36.  In a scan, at most one chunk file is unclosed at any time; while  *)
(* the writer holds a ParquetFileWriter that file is the current chunk's,  *)
(* while it holds none (between the close and the open of a rotation,      *)
(* after finalize) no chunk file is open, and after a failure the writer   *)
(* holds no file.                                                          *)
(***************************************************************************)
OpenChunks == { n \in DOMAIN chunkFiles : chunkFiles[n].state = "open" }

C36_AtMostOneOpenChunk ==
  /\ Cardinality(OpenChunks) <= 1
  /\ IsSome(current_writer) => OpenChunks = {current_chunk}
  /\ (~IsSome(current_writer) /\ wpc # "failed") => OpenChunks = {}
  /\ wpc \in {"failed", "done"} => ~IsSome(current_writer)

\* A rotation has closed the first chunk and opened the second.
C36_Witness ==
  /\ IsSome(current_writer)
  /\ Cardinality(DOMAIN chunkFiles) = 2
  /\ OpenChunks = {current_chunk}
  /\ \E n \in DOMAIN chunkFiles : chunkFiles[n].state = "closed"

(***************************************************************************)
(* C37.  A scan whose writer does not fail terminates: eventually the      *)
(* walk is over and scan_parallel has returned, the batch thread has       *)
(* flushed and exited, both channels are empty with their senders dropped, *)
(* the writer has left its receive loop and finalized, and the run has     *)
(* finished; it stays so.                                                  *)
(***************************************************************************)
PipelineDone ==
  /\ phase = "finished"
  /\ scanPc = "returned"
  /\ \A w \in Workers : worker[w] = 0
  /\ batcherPc = "done"
  /\ batch = << >>
  /\ send_batch = << >>
  /\ batch_rx = << >>
  /\ rx = << >>
  /\ wpc = "done"
  /\ manifest.completed

C37_PipelineTerminates == <>[]PipelineDone

\* A run with batch_size = 1 has finished: every entry of the tree was
\* handled and four batches passed through the batch channel of capacity 2.
C37_Witness ==
  /\ PipelineDone
  /\ options.batch_size = 1
  /\ Len(batches) = 4
  /\ processed = Ids

(***************************************************************************)
(* C38.  The manifest in memory becomes completed only in finalize, when   *)
(* the batch channel is closed and empty and no batch is being written,    *)
(* and finalize closes the open chunk and appends it to chunks.  A         *)
(* manifest with completed = true is written to disk only by finalize's    *)
(* save: then scan_parallel has returned, the channel is empty, every      *)
(* batch the writer received is in the closed chunks this run has listed,  *)
(* and the file holds the manifest in memory.                              *)
(***************************************************************************)
C38_CompletedOnlyAtFinalize ==
  [][ /\ (manifest'.completed /\ ~manifest.completed) =>
           /\ wpc = "recv"
           /\ rx_closed
           /\ entries = << >>
           /\ ~IsSome(current_writer')
           /\ IsSome(current_writer) =>
                /\ Len(manifest'.chunks) = Len(manifest.chunks) + 1
                /\ manifest'.chunks[Len(manifest'.chunks)].chunk_number
                     = current_chunk
                /\ chunkFiles'[current_chunk].state = "closed"
      /\ (manifestFile' # manifestFile /\ manifestFile'.state = "intact"
            /\ manifestFile'.m.completed) =>
           /\ saveFor = "final"
           /\ scanPc = "returned"
           /\ batcherPc = "done"
           /\ rx = << >>
           /\ entries = << >>
           /\ ~IsSome(current_writer)
           /\ manifestFile'.m = manifest
           /\ RowsOf(NewChunks, chunkFiles) = received
           /\ \A k \in 1..Len(NewChunks) :
                chunkFiles[NewChunks[k].chunk_number].state = "closed"
    ]_vars

\* A first scan has written its completed manifest: the file lists several
\* chunks, which hold the four records of the tree.
C38_Witness ==
  /\ ~resumed
  /\ wpc = "done"
  /\ manifestFile.state = "intact"
  /\ manifestFile.m.completed
  /\ Len(manifestFile.m.chunks) >= 2
  /\ Len(RowsOf(manifestFile.m.chunks, chunkFiles)) = 4

(***************************************************************************)
(* C39.  The step in which the writer takes an empty batch from the batch  *)
(* channel changes nothing of the writer and nothing on disk: the writer   *)
(* stays in its receive loop, no chunk is opened, current_chunk,           *)
(* current_chunk_rows, last_top_level_dir and the manifest in memory and   *)
(* the chunk files and the manifest file stay as they were.                *)
(***************************************************************************)
C39_EmptyBatchIsNoOp ==
  [][ (Len(batches') = Len(batches) + 1
         /\ batches'[Len(batches')] = << >>) =>
        /\ wpc' = wpc
        /\ wpc = "recv"
        /\ entries' = entries
        /\ saveFor' = saveFor
        /\ current_writer' = current_writer
        /\ current_chunk' = current_chunk
        /\ current_chunk_rows' = current_chunk_rows
        /\ interval_elapsed' = interval_elapsed
        /\ last_top_level_dir' = last_top_level_dir
        /\ manifest' = manifest
        /\ received' = received
        /\ chunkFiles' = chunkFiles
        /\ manifestFile' = manifestFile
        /\ persisted' = persisted
    ]_vars

\* The first batch of the scan was empty: the writer has taken it, no chunk
\* file and no manifest file exist, and no directory is in progress.
C39_Witness ==
  /\ batches = << << >> >>
  /\ wpc = "recv"
  /\ ~IsSome(current_writer)
  /\ DOMAIN chunkFiles = {}
  /\ manifestFile = NoFile
  /\ ~IsSome(last_top_level_dir)
  /\ manifest = ScanManifest_new
=============================================================================
